---- MODULE Spec2Model ----
(***************************************************************************)
(* State-machine model of the Mandelbrot viewer in src/main.cpp: the       *)
(* camera (center, zoom), the pointer state, the viewport, the per-frame   *)
(* iteration cap and the 3x3-sampled complexity map, driven by the GLFW    *)
(* callbacks and the poll-and-render loop of main().                       *)
(*                                                                         *)
(* Arithmetic.  The camera arithmetic of the callbacks (double in the      *)
(* source) is carried out in exact rationals <<n, d>> with d > 0; the      *)
(* pair <<0, 0>> stands for every non-finite double (inf or NaN), which    *)
(* is what a division by a zero viewport dimension produces and which      *)
(* every later operation propagates.  zoom is tracked twice: as the real   *)
(* number 2 * 0.9^a * 1.1^b (the pair <<a, b>>), and as the value a binary *)
(* floating-point format with gradual underflow and round-to-nearest-even  *)
(* holds (zoomBits, in a format scaled down from binary64).  The escape-   *)
(* time loop runs in fixed point with FracBits fractional bits.            *)
(***************************************************************************)
EXTENDS Integers, Sequences, FiniteSets, TLC

VARIABLES centerX, centerY, zoom, zoomBits, maxIterations,
          mouseX, mouseY, lastMouseX, lastMouseY, dragging,
          width, height, windowWidth, windowHeight,
          complexityMap, pc, events,
          panning, zooming, idleFrames, renderScale

camera   == <<centerX, centerY, zoom, zoomBits>>
pointer  == <<mouseX, mouseY, lastMouseX, lastMouseY, dragging>>
viewport == <<width, height, windowWidth, windowHeight>>
frame    == <<maxIterations, complexityMap>>
sched    == <<panning, zooming, idleFrames, renderScale>>
vars     == <<camera, pointer, viewport, frame, pc, events, sched>>

-----------------------------------------------------------------------------
(* Bounds of the model *)

\* callbacks delivered in one run of Spec
MaxEvents == 3
\* tiles per side of the complexity grid (64 in the source, scaled down)
GRID_SIZE == 2
\* fractional bits of the fixed-point escape-time arithmetic
FracBits == 8
\* fractional bits of a stored complexity-map entry (float in the source)
MapBits == 12
\* mantissa bits, subnormal quantum 2^-FQuantum and top exponent of zoomBits
FPrec == 4
FQuantum == 4
FMaxExp == 3
\* scroll events in one run of SpecFloat
MaxFloatScroll == 40
\* deepest zoom-in and zoom-out exponents drawn by SpecRender, and the stride
MaxZoomIn == 400
MaxZoomOut == 1
ZoomStride == 40

-----------------------------------------------------------------------------
(* Integer helpers *)

Abs(x) == IF x < 0 THEN -x ELSE x
Min(a, b) == IF a < b THEN a ELSE b
Max(a, b) == IF a > b THEN a ELSE b

RECURSIVE Pow(_, _)
Pow(b, e) == IF e = 0 THEN 1 ELSE b * Pow(b, e - 1)

RECURSIVE GCD(_, _)
GCD(a, b) == IF b = 0 THEN a ELSE GCD(b, a % b)

\* C++ conversion double -> int and integer division: truncation toward zero
TruncDiv(n, d) == IF n >= 0 THEN n \div d ELSE -((-n) \div d)

\* n / d (d > 0) rounded to the nearest integer, ties to even
RoundHalfEven(n, d) ==
  LET q == n \div d
      r == n % d
  IN  IF 2 * r < d THEN q
      ELSE IF 2 * r > d THEN q + 1
      ELSE IF q % 2 = 0 THEN q ELSE q + 1

-----------------------------------------------------------------------------
(* Exact rationals with one non-finite element *)

NaN == <<0, 0>>
IsFinite(r) == r[2] # 0
Rat(n, d) ==
  IF d = 0 THEN NaN
  ELSE LET g == GCD(Abs(n), Abs(d))
           s == IF d < 0 THEN -1 ELSE 1
       IN  <<(s * n) \div g, (s * d) \div g>>
RInt(n) == <<n, 1>>
Zero == <<0, 1>>
Half == <<1, 2>>

RNeg(a) == IF IsFinite(a) THEN <<-a[1], a[2]>> ELSE NaN
RAdd(a, b) ==
  IF ~IsFinite(a) \/ ~IsFinite(b) THEN NaN
  ELSE LET g == GCD(a[2], b[2])
           l == (a[2] \div g) * b[2]
       IN  Rat(a[1] * (l \div a[2]) + b[1] * (l \div b[2]), l)
RSub(a, b) == RAdd(a, RNeg(b))
RMul(a, b) ==
  IF ~IsFinite(a) \/ ~IsFinite(b) THEN NaN
  ELSE LET g1 == GCD(Abs(a[1]), b[2])
           g2 == GCD(Abs(b[1]), a[2])
       IN  Rat((a[1] \div g1) * (b[1] \div g2), (a[2] \div g2) * (b[2] \div g1))
\* x / 0 is inf or NaN in IEEE arithmetic: non-finite either way
RDiv(a, b) ==
  IF ~IsFinite(a) \/ ~IsFinite(b) \/ b[1] = 0 THEN NaN
  ELSE RMul(a, Rat(b[2], b[1]))

-----------------------------------------------------------------------------
(* zoom as a real number: 2.0 * 0.9^a * 1.1^b *)

ZoomRat(z) == Rat(2 * Pow(9, z[1]) * Pow(11, z[2]), Pow(10, z[1] + z[2]))

\* zoomFactor of scroll_callback: 0.9 for yoffset > 0, 1.1 otherwise
ZoomFactorIsIn(yoffset) == yoffset > 0
ZoomTimes(z, yoffset) ==
  IF ZoomFactorIsIn(yoffset) THEN <<z[1] + 1, z[2]>> ELSE <<z[1], z[2] + 1>>

\* the anchor shift with the zoom difference reversed
ScaleByZoomDiff_Reversed(u, old, new) ==
  IF ~IsFinite(u) THEN NaN
  ELSE IF u[1] = 0 THEN Zero
  ELSE RMul(u, RSub(ZoomRat(new), ZoomRat(old)))

\* u * (oldZoom - newZoom); 0 * finite is 0 whatever the zoom depth
ScaleByZoomDiff(u, old, new) ==
  IF ~IsFinite(u) THEN NaN
  ELSE IF u[1] = 0 THEN Zero
  ELSE RMul(u, RSub(ZoomRat(old), ZoomRat(new)))

-----------------------------------------------------------------------------
(* zoom as a machine number: a binary floating-point format with FPrec     *)
(* mantissa bits whose subnormals are the multiples of 2^-FQuantum.  A     *)
(* finite value is its number of quanta k >= 0; FInf is +infinity.         *)

FInf == -1
FMaxFinite == (Pow(2, FPrec) - 1) * Pow(2, FMaxExp)
FTwo == Pow(2, FQuantum + 1)

\* spacing of the format around the positive real n / d (in quanta)
RECURSIVE FUlp(_, _, _)
FUlp(n, d, u) == IF n < Pow(2, FPrec) * u * d THEN u ELSE FUlp(n, d, 2 * u)

\* rounding toward zero instead of to nearest
FRound_TowardZero(n, d) ==
  LET u == FUlp(n, d, 1)
      k == (n \div (d * u)) * u
  IN  IF k > FMaxFinite THEN FInf ELSE k

\* round-to-nearest-even of the positive real n / d quanta into the format
FRound(n, d) ==
  LET u == FUlp(n, d, 1)
      k == RoundHalfEven(n, d * u) * u
  IN  IF k > FMaxFinite THEN FInf ELSE k

\* the literals 0.9 and 1.1 as the format stores them, <<numerator, denominator>>
FLit09 == <<RoundHalfEven(9 * Pow(2, FPrec), 10), Pow(2, FPrec)>>
FLit11 == <<RoundHalfEven(11 * Pow(2, FPrec - 1), 10), Pow(2, FPrec - 1)>>

\* zoom *= zoomFactor in the format
FMul(k, f) == IF k = FInf THEN FInf ELSE IF k = 0 THEN 0 ELSE FRound(k * f[1], f[2])
FZoomTimes(k, yoffset) == FMul(k, IF ZoomFactorIsIn(yoffset) THEN FLit09 ELSE FLit11)

-----------------------------------------------------------------------------
(* Pixel-to-plane mapping of the input handlers (scroll_callback,          *)
(* cursor_position_callback): pointer coordinates are scaled from logical  *)
(* window units to framebuffer pixels and normalised by min(width, height) *)

\* mouseX * (double)width / windowWidth
ToFramebuffer(p, fbDim, winDim) == RDiv(RMul(p, RInt(fbDim)), RInt(winDim))
\* (double) std::min(width, height)
MinRes(w, h) == RInt(Min(w, h))
\* (fb - 0.5 * dim) / minRes
Normalize(fb, dim, w, h) == RDiv(RSub(fb, RMul(Half, RInt(dim))), MinRes(w, h))

-----------------------------------------------------------------------------
(* Inputs *)

LEFT == "GLFW_MOUSE_BUTTON_LEFT"
RIGHT == "GLFW_MOUSE_BUTTON_RIGHT"
PRESS == "GLFW_PRESS"
RELEASE == "GLFW_RELEASE"

\* pointer positions in logical window coordinates
PointerPositions == {<<400, 300>>, <<450, 300>>, <<400, 360>>}
ScrollOffsets == {-1, 0, 1}
\* <<w, h, windowWidth, windowHeight>> of a resize: a minimised window, the
\* initial window, and a portrait window on a 2x display
ResizeInputs == {<<0, 0, 0, 0>>, <<800, 600, 800, 600>>, <<1200, 1600, 600, 800>>}
\* framebuffer pixels per window unit at start-up (a 2x display is reached
\* through a resize)
InitScales == {1}

-----------------------------------------------------------------------------
(* Callbacks *)

scroll_callback(yoffset) ==
  LET fbMouseX == ToFramebuffer(RInt(mouseX), width, windowWidth)
      fbMouseY == ToFramebuffer(RInt(mouseY), height, windowHeight)
      uv_x == Normalize(fbMouseX, width, width, height)
      uv_y == Normalize(fbMouseY, height, width, height)
      oldZoom == zoom
      newZoom == ZoomTimes(zoom, yoffset)
      newBits == FZoomTimes(zoomBits, yoffset)
  IN  /\ zoom' = newZoom
      /\ zoomBits' = newBits
      /\ centerX' = IF newBits = FInf THEN NaN
                    ELSE RAdd(centerX, ScaleByZoomDiff(uv_x, oldZoom, newZoom))
      /\ centerY' = IF newBits = FInf THEN NaN
                    ELSE RAdd(centerY, ScaleByZoomDiff(uv_y, oldZoom, newZoom))
      /\ UNCHANGED <<pointer, viewport, frame>>

cursor_position_callback(xpos, ypos) ==
  LET deltaX == RInt(xpos - lastMouseX)
      deltaY == RInt(ypos - lastMouseY)
      fbDeltaX == ToFramebuffer(deltaX, width, windowWidth)
      fbDeltaY == ToFramebuffer(deltaY, height, windowHeight)
      minRes == MinRes(width, height)
      z == IF zoomBits = FInf THEN NaN ELSE ZoomRat(zoom)
  IN  /\ IF dragging
         THEN /\ centerX' = RSub(centerX, RMul(RDiv(fbDeltaX, minRes), z))
              /\ centerY' = RSub(centerY, RMul(RDiv(fbDeltaY, minRes), z))
         ELSE UNCHANGED <<centerX, centerY>>
      /\ mouseX' = xpos
      /\ mouseY' = ypos
      /\ lastMouseX' = xpos
      /\ lastMouseY' = ypos
      /\ UNCHANGED <<zoom, zoomBits, dragging, viewport, frame>>

\* cursorX, cursorY: what glfwGetCursorPos reports at the press
mouse_button_callback(button, action, cursorX, cursorY) ==
  /\ IF button = LEFT /\ action = PRESS
     THEN dragging' = TRUE /\ lastMouseX' = cursorX /\ lastMouseY' = cursorY
     ELSE IF button = LEFT /\ action = RELEASE
     THEN dragging' = FALSE /\ UNCHANGED <<lastMouseX, lastMouseY>>
     ELSE UNCHANGED <<dragging, lastMouseX, lastMouseY>>
  /\ UNCHANGED <<camera, mouseX, mouseY, viewport, frame>>

\* winW, winH: what glfwGetWindowSize reports at the resize
framebuffer_size_callback(w, h, winW, winH) ==
  /\ width' = w
  /\ height' = h
  /\ windowWidth' = winW
  /\ windowHeight' = winH
  /\ UNCHANGED <<camera, pointer, frame>>

-----------------------------------------------------------------------------
(* Iteration cap of main(): 256 + (int)(-log10(zoom) * 100), clamped.      *)
(* log10 is evaluated on zoom = 2 * 0.9^a * 1.1^b from the logarithms of   *)
(* the three literals, in units of 10^-5 of 100 * log10.                   *)

LogUnit == 100000
\* 100 * log10(2.0), -100 * log10(0.9), 100 * log10(1.1)
Log10Two == 3010300
Log10NineTenths == 457575
Log10ElevenTenths == 413927
MinCap == 256
MaxCap == 2000

\* log10(zoom) * 100, in LogUnit-ths
Log10x100(z) == Log10Two - z[1] * Log10NineTenths + z[2] * Log10ElevenTenths

\* the cap without its upper clamp
IterationCap_Unclamped(z) ==
  LET raw == MinCap + TruncDiv(-Log10x100(z), LogUnit)
  IN  IF raw < MinCap THEN MinCap ELSE raw

IterationCap(z) ==
  LET raw == MinCap + TruncDiv(-Log10x100(z), LogUnit)
  IN  IF raw < MinCap THEN MinCap
      ELSE IF raw > MaxCap THEN MaxCap
      ELSE raw

-----------------------------------------------------------------------------
(* Escape-time iteration getIterations, in fixed point                     *)

One == Pow(2, FracBits)
\* guard bits kept while zoom is scaled into fixed point
ZoomGuardBits == 10

\* a rational as a fixed-point number
ToFix(r) == (r[1] \div r[2]) * One + RoundHalfEven((r[1] % r[2]) * One, r[2])

\* v scaled by 0.9 (resp. 1.1) n times, rounding each product
RECURSIVE ScaleIn(_, _)
ScaleIn(v, n) ==
  IF v = 0 \/ n = 0 THEN v
  ELSE IF n = 1 THEN RoundHalfEven(v * 9, 10)
  ELSE ScaleIn(ScaleIn(v, n \div 2), n - n \div 2)
RECURSIVE ScaleOut(_, _)
ScaleOut(v, n) ==
  IF v = 0 \/ n = 0 THEN v
  ELSE IF n = 1 THEN RoundHalfEven(v * 11, 10)
  ELSE ScaleOut(ScaleOut(v, n \div 2), n - n \div 2)

\* zoom as a fixed-point number
ZoomFix(z) ==
  RoundHalfEven(ScaleIn(ScaleOut(2 * One * Pow(2, ZoomGuardBits), z[2]), z[1]),
                Pow(2, ZoomGuardBits))

\* the loop condition: z_re * z_re + z_im * z_im < 4.0 && iter < maxIter
\* st = <<z_re, z_im, iter>>
LoopContinues(st, maxIter) ==
  st[1] * st[1] + st[2] * st[2] < 4 * One * One /\ st[3] < maxIter

\* one pass through the loop body
LoopBody(st, c) ==
  << RoundHalfEven(st[1] * st[1] - st[2] * st[2], One) + c[1],
     RoundHalfEven(2 * st[1] * st[2], One) + c[2],
     st[3] + 1 >>

\* at most n passes through the loop
RECURSIVE RunLoop(_, _, _, _)
RunLoop(st, c, maxIter, n) ==
  IF ~LoopContinues(st, maxIter) THEN st
  ELSE IF n <= 1 THEN LoopBody(st, c)
  ELSE RunLoop(RunLoop(st, c, maxIter, n \div 2), c, maxIter, n - n \div 2)

\* c = <<c_re, c_im, finite>>.  With a non-finite c the first pass makes z
\* non-finite and the comparison with 4.0 then fails: one iteration.
getIterations(c, maxIter) ==
  IF maxIter <= 0 THEN 0
  ELSE IF ~c[3] THEN 1
  ELSE RunLoop(<<0, 0, 0>>, c, maxIter, maxIter)[3]

-----------------------------------------------------------------------------
(* updateComplexityMap *)

Tiles == (0 .. GRID_SIZE - 1) \X (0 .. GRID_SIZE - 1)
SubSamples == (0 .. 2) \X (0 .. 2)
MinBuffer == 32
MapOne == Pow(2, MapBits)

\* (i + sx * 0.5) * width / GRID_SIZE
SampleCoord(i, sx, dim) == Rat((2 * i + sx) * dim, 2 * GRID_SIZE)

\* centerX + uv_x * zoom, as a fixed-point number (0 when not finite)
PlaneCoord(center, uv, zfix) ==
  IF IsFinite(center) /\ IsFinite(uv)
  THEN ToFix(center) + RoundHalfEven(uv[1] * zfix, uv[2])
  ELSE 0

\* the sample point c of sub-sample <<sx, sy>> of tile <<i, j>>
SamplePoint(i, j, sx, sy) ==
  LET uv_x == Normalize(SampleCoord(i, sx, width), width, width, height)
      uv_y == Normalize(SampleCoord(j, sy, height), height, width, height)
      zfix == ZoomFix(zoom)
      ok == IsFinite(centerX) /\ IsFinite(centerY) /\ IsFinite(uv_x)
            /\ IsFinite(uv_y) /\ zoomBits # FInf
  IN  <<PlaneCoord(centerX, uv_x, zfix), PlaneCoord(centerY, uv_y, zfix), ok>>

\* iteration counts of the 9 samples of a tile
TileIters(i, j, cap) ==
  [s \in SubSamples |-> getIterations(SamplePoint(i, j, s[1], s[2]), cap)]

SetMax(S) == CHOOSE m \in S : \A x \in S : x <= m
SetMin(S) == CHOOSE m \in S : \A x \in S : m <= x

\* hitMax, maxTileIter, minTileIter of a tile
TileStats(i, j, cap) ==
  LET its == TileIters(i, j, cap)
      vals == {its[s] : s \in SubSamples}
  IN  [hitMax |-> \E v \in vals : v >= cap,
       maxTileIter |-> SetMax(vals \cup {0}),
       minTileIter |-> SetMin(vals \cup {cap})]

\* (float)predicted / maxIterations, stored with MapBits fractional bits
ToFloat(predicted, cap) == RoundHalfEven(predicted * MapOne, cap)

\* the tile value with the iteration-range test dropped from isSimple
TileValue_RangeIgnored(st, cap) ==
  LET isSimple == ~st.hitMax
      buffer == Max(MinBuffer, TruncDiv(st.maxTileIter * 2, 10))
      predicted == Min(cap, st.maxTileIter + buffer)
  IN  IF isSimple THEN ToFloat(predicted, cap) ELSE MapOne

\* the tile value without the safety buffer
TileValue_NoBuffer(st, cap) ==
  LET isSimple == ~st.hitMax /\ (st.maxTileIter - st.minTileIter < 2)
      predicted == Min(cap, st.maxTileIter)
  IN  IF isSimple THEN ToFloat(predicted, cap) ELSE MapOne

\* the value written to complexityMap[j * GRID_SIZE + i]
TileValue(st, cap) ==
  LET isSimple == ~st.hitMax /\ (st.maxTileIter - st.minTileIter < 2)
      buffer == Max(MinBuffer, TruncDiv(st.maxTileIter * 2, 10))
      predicted == Min(cap, st.maxTileIter + buffer)
  IN  IF isSimple THEN ToFloat(predicted, cap) ELSE MapOne

updateComplexityMap ==
  complexityMap' = [t \in Tiles |->
                      TileValue(TileStats(t[1], t[2], maxIterations), maxIterations)]

-----------------------------------------------------------------------------
(* The program: initial state at the first loop test of main(), the steps  *)
(* of the loop body, and the callbacks glfwPollEvents runs.                *)

InitWidth == 800
InitHeight == 600

InitCommon ==
  /\ maxIterations = MinCap
  /\ lastMouseX = 0 /\ lastMouseY = 0
  /\ dragging = FALSE
  /\ complexityMap = [t \in Tiles |-> 0]
  /\ pc = "cap"
  /\ events = 0
  /\ panning = FALSE /\ zooming = FALSE /\ idleFrames = 0 /\ renderScale = 1

Init ==
  /\ InitCommon
  /\ centerX = Rat(-1, 2) /\ centerY = Zero
  /\ zoom = <<0, 0>> /\ zoomBits = FTwo
  /\ mouseX = 0 /\ mouseY = 0
  /\ \E s \in InitScales : width = InitWidth * s /\ height = InitHeight * s
  /\ windowWidth = InitWidth /\ windowHeight = InitHeight

\* main(), lines 278-280
CapStep ==
  /\ pc = "cap"
  /\ maxIterations' = IterationCap(zoom)
  /\ pc' = "map"
  /\ UNCHANGED <<camera, pointer, viewport, complexityMap, events, sched>>

\* main(), line 282
MapStep ==
  /\ pc = "map"
  /\ updateComplexityMap
  /\ pc' = "draw"
  /\ UNCHANGED <<camera, pointer, viewport, maxIterations, events, sched>>

\* main(), lines 284-299: the draw call and the buffer swap
DrawStep ==
  /\ pc = "draw"
  /\ pc' = "poll"
  /\ UNCHANGED <<camera, pointer, viewport, frame, events, sched>>

Delivered ==
  /\ pc = "poll"
  /\ events < MaxEvents
  /\ events' = events + 1
  /\ UNCHANGED pc

Scroll == \E y \in ScrollOffsets : Delivered /\ scroll_callback(y) /\ UNCHANGED sched

CursorMove ==
  \E p \in PointerPositions :
    Delivered /\ cursor_position_callback(p[1], p[2]) /\ UNCHANGED sched

MouseButton ==
  \E b \in {LEFT, RIGHT}, a \in {PRESS, RELEASE}, p \in PointerPositions :
    Delivered /\ mouse_button_callback(b, a, p[1], p[2]) /\ UNCHANGED sched

Resize ==
  \E r \in ResizeInputs :
    Delivered /\ framebuffer_size_callback(r[1], r[2], r[3], r[4]) /\ UNCHANGED sched

\* glfwPollEvents returns and the loop test finds the window open
EndPoll ==
  /\ pc = "poll"
  /\ pc' = "cap"
  /\ UNCHANGED <<camera, pointer, viewport, frame, events, sched>>

\* the loop test finds the window closed
CloseWindow ==
  /\ pc = "poll"
  /\ pc' = "done"
  /\ UNCHANGED <<camera, pointer, viewport, frame, events, sched>>

Next ==
  \/ CapStep
  \/ MapStep
  \/ DrawStep
  \/ Scroll
  \/ CursorMove
  \/ MouseButton
  \/ Resize
  \/ EndPoll
  \/ CloseWindow

Spec == Init /\ [][Next]_vars

-----------------------------------------------------------------------------
(* SpecRender: the loop body applied to cameras drawn from a bounded set   *)
(* of states the callbacks reach: zoom after a zoom-ins and b zoom-outs    *)
(* with the pointer at the optical centre, center after a pan.             *)

RenderZooms ==
  {<<a, b>> : a \in {k \in 0 .. MaxZoomIn : k % ZoomStride = 0 \/ k = MaxZoomIn},
              b \in 0 .. MaxZoomOut}
RenderCenters == {<<Rat(-1, 2), Zero>>, <<Rat(1, 2), Rat(3, 4)>>, <<Rat(5, 2), RInt(3)>>}
RenderViewports == {<<0, 0, 0, 0>>, <<800, 600, 800, 600>>}

\* zoomBits after n zoom-ins (resp. zoom-outs) of k
RECURSIVE FZoomIn(_, _)
FZoomIn(k, n) ==
  IF k = FInf \/ n = 0 THEN k
  ELSE IF n = 1 THEN FZoomTimes(k, 1)
  ELSE FZoomIn(FZoomIn(k, n \div 2), n - n \div 2)
RECURSIVE FZoomOut(_, _)
FZoomOut(k, n) ==
  IF k = FInf \/ n = 0 THEN k
  ELSE IF n = 1 THEN FZoomTimes(k, -1)
  ELSE FZoomOut(FZoomOut(k, n \div 2), n - n \div 2)

InitRender ==
  /\ InitCommon
  /\ \E c \in RenderCenters : centerX = c[1] /\ centerY = c[2]
  /\ \E z \in RenderZooms : zoom = z /\ zoomBits = FZoomIn(FZoomOut(FTwo, z[2]), z[1])
  /\ mouseX = 400 /\ mouseY = 300
  /\ \E v \in RenderViewports :
       width = v[1] /\ height = v[2] /\ windowWidth = v[3] /\ windowHeight = v[4]

NextRender ==
  \/ CapStep
  \/ MapStep
  \/ DrawStep
  \/ EndPoll

SpecRender == InitRender /\ [][NextRender]_vars

-----------------------------------------------------------------------------
(* SpecFloat: scroll events with the pointer at the optical centre, deep   *)
(* enough for zoomBits to reach both ends of its format.                   *)

InitFloat ==
  /\ InitCommon
  /\ centerX = Rat(-1, 2) /\ centerY = Zero
  /\ zoom = <<0, 0>> /\ zoomBits = FTwo
  /\ mouseX = 400 /\ mouseY = 300
  /\ width = InitWidth /\ height = InitHeight
  /\ windowWidth = InitWidth /\ windowHeight = InitHeight

DeepScroll ==
  \E y \in ScrollOffsets :
    /\ zoom[1] + zoom[2] < MaxFloatScroll
    /\ scroll_callback(y)
    /\ UNCHANGED <<pc, events, sched>>

NextFloat == DeepScroll

SpecFloat == InitFloat /\ [][NextFloat]_vars

-----------------------------------------------------------------------------
(* SpecDebounce: the interaction flags and the adaptive render scheduler.  *)
(* src/main.cpp has neither; they belong to the adaptive-resolution        *)
(* variant of the viewer and are modelled here from its description:       *)
(* a handler sets its flag on a non-zero scroll or a non-zero drag, and    *)
(* the flags are cleared by a frame count, never by a handler.             *)

DebounceFrames == 10
ReducedScale == 4

Interacting == panning \/ zooming

OnScroll ==
  \E y \in ScrollOffsets :
    /\ events < MaxEvents
    /\ events' = events + 1
    /\ scroll_callback(y)
    /\ IF y # 0
       THEN zooming' = TRUE /\ idleFrames' = 0 /\ UNCHANGED <<panning, renderScale>>
       ELSE UNCHANGED sched
    /\ UNCHANGED pc

OnPointerMove ==
  \E p \in PointerPositions :
    /\ events < MaxEvents
    /\ events' = events + 1
    /\ cursor_position_callback(p[1], p[2])
    /\ IF dragging /\ (p[1] # lastMouseX \/ p[2] # lastMouseY)
       THEN panning' = TRUE /\ idleFrames' = 0 /\ UNCHANGED <<zooming, renderScale>>
       ELSE UNCHANGED sched
    /\ UNCHANGED pc

OnPointerButton ==
  \E a \in {PRESS, RELEASE}, p \in PointerPositions :
    /\ events < MaxEvents
    /\ events' = events + 1
    /\ mouse_button_callback(LEFT, a, p[1], p[2])
    /\ UNCHANGED <<pc, sched>>

\* a frame that clears the flags as soon as it has rendered
ScheduledFrame_ClearsAtOnce ==
  /\ renderScale' = IF Interacting THEN ReducedScale ELSE 1
  /\ maxIterations' = IterationCap(zoom)
  /\ panning' = FALSE /\ zooming' = FALSE /\ idleFrames' = 0
  /\ UNCHANGED <<camera, pointer, viewport, complexityMap, pc, events>>

\* one frame: choose the resolution from the flags, render, count the frame
ScheduledFrame ==
  /\ renderScale' = IF Interacting THEN ReducedScale ELSE 1
  /\ maxIterations' = IterationCap(zoom)
  /\ IF Interacting /\ idleFrames + 1 >= DebounceFrames
     THEN panning' = FALSE /\ zooming' = FALSE /\ idleFrames' = 0
     ELSE IF Interacting
     THEN idleFrames' = idleFrames + 1 /\ UNCHANGED <<panning, zooming>>
     ELSE UNCHANGED <<panning, zooming, idleFrames>>
  /\ UNCHANGED <<camera, pointer, viewport, complexityMap, pc, events>>

NextDebounce ==
  \/ OnScroll
  \/ OnPointerMove
  \/ OnPointerButton
  \/ ScheduledFrame

SpecDebounce == Init /\ [][NextDebounce]_vars

-----------------------------------------------------------------------------
(* Plane points                                                            *)

\* the plane point the handlers put under window position p, for camera
\* cam = <<centerX, centerY, zoom>> and viewport vp = <<width, height,
\* windowWidth, windowHeight>>: center + uv * zoom
HandlerPoint(cam, vp, p) ==
  LET uv_x == Normalize(ToFramebuffer(RInt(p[1]), vp[1], vp[3]), vp[1], vp[1], vp[2])
      uv_y == Normalize(ToFramebuffer(RInt(p[2]), vp[2], vp[4]), vp[2], vp[1], vp[2])
  IN  <<RAdd(cam[1], RMul(uv_x, ZoomRat(cam[3]))),
        RAdd(cam[2], RMul(uv_y, ZoomRat(cam[3])))>>

\* the plane point the fragment shader draws at window position p:
\* c = u_center + (gl_FragCoord.xy - 0.5 * u_resolution) / min(u_resolution) * u_zoom,
\* gl_FragCoord.y counted from the bottom row of the framebuffer
RenderedPoint(cam, vp, p) ==
  LET fragX == ToFramebuffer(RInt(p[1]), vp[1], vp[3])
      fragY == RSub(RInt(vp[2]), ToFramebuffer(RInt(p[2]), vp[2], vp[4]))
  IN  <<RAdd(cam[1], RMul(Normalize(fragX, vp[1], vp[1], vp[2]), ZoomRat(cam[3]))),
        RAdd(cam[2], RMul(Normalize(fragY, vp[2], vp[1], vp[2]), ZoomRat(cam[3])))>>

view == <<centerX, centerY, zoom>>

\* equality of two plane points: both finite and equal
SamePoint(a, b) ==
  /\ IsFinite(a[1]) /\ IsFinite(a[2]) /\ IsFinite(b[1]) /\ IsFinite(b[2])
  /\ a = b

ViewportPositive == width > 0 /\ height > 0 /\ windowWidth > 0 /\ windowHeight > 0
CenterFinite == IsFinite(centerX) /\ IsFinite(centerY)

-----------------------------------------------------------------------------
(* Properties                                                              *)

PointerAtCentre ==
  /\ Normalize(ToFramebuffer(RInt(mouseX), width, windowWidth), width, width, height) = Zero
  /\ Normalize(ToFramebuffer(RInt(mouseY), height, windowHeight), height, width, height) = Zero

\* C1: zoom anchoring.  Across every scroll_callback on a viewport with
\* positive dimensions and a finite center, the plane point the handlers'
\* mapping puts under the pointer is the same before and after; with the
\* pointer at the exact viewport centre, center does not change.
C1_ZoomAnchored ==
  [][ (Scroll /\ ViewportPositive /\ CenterFinite) =>
        /\ SamePoint(HandlerPoint(view, viewport, <<mouseX, mouseY>>),
                     HandlerPoint(view', viewport', <<mouseX', mouseY'>>))
        /\ (PointerAtCentre => centerX' = centerX /\ centerY' = centerY) ]_vars

\* a zoom-in was applied with the pointer at the window origin, off the centre
C1_Witness ==
  /\ zoom = <<1, 0>> /\ mouseX = 0 /\ mouseY = 0
  /\ centerX = Rat(-19, 30) /\ centerY = Rat(-1, 10)
  /\ ViewportPositive

\* C2: pan invariant.  Across every pointer move with the primary button
\* held and a non-zero delta, the plane point that was under the previous
\* pointer position is under the new position, zoom is unchanged, and a
\* purely horizontal delta moves center.re by -dx_fb / min(width, height) *
\* zoom and leaves center.im unchanged.
C2_PanInvariant ==
  [][ (CursorMove /\ dragging /\ <<mouseX', mouseY'>> # <<lastMouseX, lastMouseY>>) =>
        /\ SamePoint(HandlerPoint(view, viewport, <<lastMouseX, lastMouseY>>),
                     HandlerPoint(view', viewport', <<mouseX', mouseY'>>))
        /\ zoom' = zoom
        /\ (mouseY' = lastMouseY =>
              /\ centerY' = centerY
              /\ IsFinite(centerX')
              /\ centerX' = RSub(centerX,
                    RMul(RDiv(ToFramebuffer(RInt(mouseX' - lastMouseX), width, windowWidth),
                              MinRes(width, height)),
                         ZoomRat(zoom)))) ]_vars

\* the pan invariant on the states in which the viewport has positive
\* dimensions and center is finite
PanInvariantOnValidViewport ==
  [][ (CursorMove /\ dragging /\ <<mouseX', mouseY'>> # <<lastMouseX, lastMouseY>>
         /\ ViewportPositive /\ CenterFinite) =>
        /\ SamePoint(HandlerPoint(view, viewport, <<lastMouseX, lastMouseY>>),
                     HandlerPoint(view', viewport', <<mouseX', mouseY'>>))
        /\ zoom' = zoom
        /\ (mouseY' = lastMouseY => centerY' = centerY) ]_vars

\* zoom1 < zoom2, decided on the logarithms
ZoomLess(z1, z2) == Log10x100(z1) < Log10x100(z2)

\* C3: iteration cap.  When the complexity map is computed and the draw is
\* issued, maxIterations is the cap of the current zoom, lies in
\* [256, 2000], and is monotone: a smaller zoom never has a smaller cap.
C3_IterationCap ==
  pc \in {"map", "draw"} =>
    /\ maxIterations = IterationCap(zoom)
    /\ MinCap <= maxIterations /\ maxIterations <= MaxCap
    /\ \A z \in RenderZooms :
         /\ ZoomLess(zoom, z) => maxIterations >= IterationCap(z)
         /\ ZoomLess(z, zoom) => IterationCap(z) >= maxIterations

\* a frame about to draw with a cap strictly inside the range
C3_Witness == pc = "draw" /\ MinCap < maxIterations /\ maxIterations < MaxCap

\* C4: after updateComplexityMap, every tile with a sample at the cap, and
\* every tile whose samples differ by 2 or more iterations, has value 1.0.
C4_NonSimpleTilesFull ==
  pc = "draw" =>
    \A t \in Tiles :
      LET st == TileStats(t[1], t[2], maxIterations)
      IN  (st.hitMax \/ st.maxTileIter - st.minTileIter >= 2) => complexityMap[t] = MapOne

\* a map with a tile that hit the cap and a tile that only has a wide range
C4_Witness ==
  /\ pc = "draw"
  /\ \E t \in Tiles : TileStats(t[1], t[2], maxIterations).hitMax /\ complexityMap[t] = MapOne
  /\ \E t \in Tiles :
       LET st == TileStats(t[1], t[2], maxIterations)
       IN  ~st.hitMax /\ st.maxTileIter - st.minTileIter >= 2 /\ complexityMap[t] = MapOne

FloorIter == 16

\* C5: after updateComplexityMap, every entry times maxIterations is at
\* least 16 and at most maxIterations.
C5_GridFloor ==
  pc \in {"draw", "poll"} =>
    \A t \in Tiles :
      /\ complexityMap[t] * maxIterations >= FloorIter * MapOne
      /\ complexityMap[t] * maxIterations <= maxIterations * MapOne

\* a map computed under a raised cap with a tile budgeted below the cap
C5_Witness ==
  /\ pc = "draw" /\ maxIterations > MinCap
  /\ \E t \in Tiles : complexityMap[t] < MapOne

\* C6: the viewport dimensions are positive in every reachable state (a
\* resize with a non-positive dimension is ignored).
C6_ViewportStaysPositive ==
  width > 0 /\ height > 0 /\ windowWidth > 0 /\ windowHeight > 0

\* C7: zoom > 0 in every reachable state, whatever the number of scroll
\* events: the finite-precision product never reaches zero.
C7_ZoomPositive == zoomBits = FInf \/ zoomBits >= 1

\* a zoom-in was applied at the smallest value zoom reaches and left it there
C7_Witness ==
  /\ zoom[2] = 0 /\ zoom[1] >= 2
  /\ zoomBits >= 1
  /\ zoomBits = FZoomIn(FTwo, zoom[1] - 1)

\* C8: interaction debounce.  The flags are cleared only by a frame, and by
\* the frame that completes the count of 10 polled frames since the last
\* input, never by a handler (a button release included); a frame renders at
\* the reduced resolution exactly when a flag is set.
C8_Debounce ==
  [][ /\ (Interacting /\ ~Interacting') => (ScheduledFrame /\ idleFrames = DebounceFrames - 1)
      /\ (ScheduledFrame /\ Interacting /\ idleFrames = DebounceFrames - 1) => ~Interacting'
      /\ ((panning' /\ ~panning) \/ (zooming' /\ ~zooming)) => idleFrames' = 0
      /\ ScheduledFrame => renderScale' = IF Interacting THEN ReducedScale ELSE 1
      /\ Interacting => idleFrames < DebounceFrames ]_vars

\* the tenth frame after a drag has just cleared the flags, the button released
C8_Witness ==
  /\ ~Interacting /\ renderScale = ReducedScale /\ ~dragging
  /\ events = MaxEvents

\* C9: the plane point the handlers treat as under the pointer is the point
\* the renderer draws there, so the rendered point under the pointer stays
\* fixed across a zoom.
C9_AxisConsistent ==
  [][ (Scroll /\ ViewportPositive /\ CenterFinite) =>
        /\ SamePoint(HandlerPoint(view, viewport, <<mouseX, mouseY>>),
                     RenderedPoint(view, viewport, <<mouseX, mouseY>>))
        /\ SamePoint(RenderedPoint(view, viewport, <<mouseX, mouseY>>),
                     RenderedPoint(view', viewport', <<mouseX', mouseY'>>)) ]_vars

\* C10: a scroll with yoffset = 0, a pointer move without the button held
\* and a pointer move with zero displacement leave center and zoom
\* unchanged; zoom is multiplied by 0.9 only for yoffset > 0 and by 1.1
\* only for yoffset < 0.
C10_OnlyRealInput ==
  [][ /\ \A y \in ScrollOffsets :
           (Delivered /\ scroll_callback(y) /\ UNCHANGED sched) =>
             /\ (zoom' = <<zoom[1] + 1, zoom[2]>>) <=> (y > 0)
             /\ (zoom' = <<zoom[1], zoom[2] + 1>>) <=> (y < 0)
             /\ (y = 0) => UNCHANGED <<centerX, centerY, zoom>>
      /\ (CursorMove /\ ~dragging) => UNCHANGED <<centerX, centerY, zoom>>
      /\ (CursorMove /\ <<mouseX', mouseY'>> = <<lastMouseX, lastMouseY>>) =>
           UNCHANGED <<centerX, centerY, zoom>> ]_vars

====
